---- MODULE Spec2Model ----
(***************************************************************************)
(* Model of scripts/check_caddy_status.py: one run of main(), from the     *)
(* configuration checks through the release lookup, the official image     *)
(* check, the custom image check (Docker Hub or GHCR) and the emission of  *)
(* the two action outputs.  HTTP responses are the inputs of the run; each *)
(* request picks one response from a bounded set.                          *)
(***************************************************************************)
EXTENDS Integers, Sequences, FiniteSets, TLC

\* ------------------------------------------------------------------ bounds
\* Longest 'images' list of a Docker Hub tag descriptor.
MaxImages == 2

\* Longest 'manifests' list of a GHCR image index.
MaxManifests == 2

\* Longest release tag_name, in characters.
MaxTagLen == 2


\* ------------------------------------------------- Python values and helpers
\* Python None (also: a key that is missing, read with .get()).
None == "<None>"

\* Python truthiness of a string-or-None field.
Truthy(v) == v \notin {None, ""}

\* str() / f-string rendering of a string-or-None value.
Str(v) == IF v = None THEN "None" ELSE v

\* Elements of a sequence.
Range(s) == {s[i] : i \in 1..Len(s)}

\* All sequences over S of length at most n.
SeqUpTo(S, n) == UNION {[1..k -> S] : k \in 0..n}

\* ----------------------------------------------------------- configuration
\* REQUIRED_PLATFORMS as shipped.
ShippedPlatforms == {"linux/amd64", "linux/arm64"}

\* Values of the module-level set REQUIRED_PLATFORMS the run may start with:
\* the shipped one, an empty one (the case main() guards against), and one
\* that requires both the variant-less arm platform and arm/v7.
RequiredConfigs == {ShippedPlatforms, {}, {"linux/arm", "linux/arm/v7"}}

\* Values of CUSTOM_REGISTRY (after .lower()).
RegistryConfigs == {"dockerhub", "ghcr", "quay"}

\* Values of GITHUB_TOKEN: unset, or a token.
TokenConfigs == {None, "ghp_primary"}

\* The GITHUB_OUTPUT environment variable: not set, or set to a path.
SinkConfigs == {"unset", "set"}

\* What one open-and-append of set_action_output may do, decided anew at
\* each call:
\*   "ok"        the entry is appended whole
\*   "fragment"  OSError is raised after a part of the entry has reached the
\*               file (the file has room for a part of it only)
\*   "fails"     OSError is raised and nothing reaches the file (open()
\*               fails, or the file has no room left)
AppendOutcomes == {"ok", "fragment", "fails"}

\* ------------------------------------------------------------- HTTP inputs
\* A requests.get() outcome: an exception (Timeout, other RequestException)
\* or a response with a status code and a body.
Resp(outcome, status, body) == [outcome |-> outcome, status |-> status, body |-> body]

\* --- release endpoint ----------------------------------------------------
\* The characters of a tag_name.  Each is a string that stands for one
\* character; Surrogate is a lone surrogate (JSON "\ud800"), which
\* json.loads accepts and no strict codec can encode, and NonAscii a
\* character outside ASCII that UTF-8 encodes (JSON "\u00e9").
Surrogate == "U+D800"
NonAscii == "U+00E9"
TagChars == {"v", "2", "\n", NonAscii, Surrogate}

\* sys.stdout, which log_info prints to, as the environment sets it up: a
\* strict ASCII or UTF-8 encoder, or one with a lenient error handler (for
\* example PYTHONIOENCODING=utf-8:backslashreplace).  The output file is
\* always opened with the strict UTF-8 encoder.
StdoutCodecs == {"ascii", "utf-8", "lenient"}

\* Body of the release response: not JSON, JSON that is not an object, or an
\* object whose tag_name is
\*   "missing"    absent or null
\*   "falsy"      a falsy value that is not a string: 0, 0.0, false, [], {}
\*   "nonstring"  a truthy value that is not a string: a non-zero number,
\*                true, a non-empty list or object
\*   "string"     a string, held in tag as its characters
ReleaseBody(kind, tag_kind, tag) == [kind |-> kind, tag_kind |-> tag_kind, tag |-> tag]

ReleaseBodies ==
    {ReleaseBody("invalid", "missing", <<>>), ReleaseBody("nondict", "missing", <<>>),
     ReleaseBody("dict", "missing", <<>>), ReleaseBody("dict", "falsy", <<>>),
     ReleaseBody("dict", "nonstring", <<>>)}
    \cup {ReleaseBody("dict", "string", t) : t \in SeqUpTo(TagChars, MaxTagLen)}

\* Status 600 stands for the codes above 599, which raise_for_status lets
\* through.
ReleaseResponses ==
    {Resp("timeout", 0, ReleaseBody("invalid", "missing", <<>>)),
     Resp("neterr", 0, ReleaseBody("invalid", "missing", <<>>)),
     Resp("http", 404, ReleaseBody("invalid", "missing", <<>>)),
     Resp("http", 500, ReleaseBody("invalid", "missing", <<>>)),
     Resp("http", 599, ReleaseBody("dict", "string", <<"v", "2">>)),
     Resp("http", 600, ReleaseBody("invalid", "missing", <<>>)),
     Resp("http", 600, ReleaseBody("dict", "string", <<"v", "2">>))}
    \cup {Resp("http", 200, b) : b \in ReleaseBodies}

\* --- platform descriptors ------------------------------------------------
\* One entry of an 'images' list: a dict with os / architecture / variant
\* (None when missing), or a value that is not a dict.
Descriptor(os, arch, variant) ==
    [isdict |-> TRUE, os |-> os, architecture |-> arch, variant |-> variant]

NonDict == [isdict |-> FALSE, os |-> None, architecture |-> None, variant |-> None]

Descriptors ==
    {Descriptor("linux", "amd64", None), Descriptor("linux", "arm64", "v8"),
     Descriptor("linux", "arm", "v7"), Descriptor("linux", "arm", None),
     Descriptor("linux", "386", None), Descriptor("windows", "amd64", None),
     Descriptor("linux", None, None), NonDict}

\* --- Docker Hub tag endpoint ---------------------------------------------
\* Tag data: the decoded JSON body of the tag endpoint, or what
\* check_ghcr_tag builds.  kind is the JSON shape:
\*   "None"        Python None
\*   "invalid"     not JSON (only as a response body)
\*   "falsy"       {} [] 0 "" false null
\*   "scalar"      a non-zero number or true
\*   "str"         a string that does not contain 'images'
\*   "str_images"  a string that contains 'images'
\*   "list"        a non-empty list without the element 'images'
\*   "list_images" a list with the element 'images'
\*   "dict"        an object; images_kind says whether it has no 'images'
\*                 key, a non-list 'images', or a list 'images'
TagData(kind, images_kind, images) ==
    [kind |-> kind, images_kind |-> images_kind, images |-> images]

NoneData == TagData("None", "missing", <<>>)

\* The 'images' lists of the tag descriptors a run may receive: nothing,
\* one required platform, the shipped required set exactly, a strict
\* superset of it in another order, the arm pair, arm/v7 alone, and a list
\* without a usable entry.
SampleImages ==
    {<<>>,
     <<Descriptor("linux", "amd64", None)>>,
     <<Descriptor("linux", "amd64", None), Descriptor("linux", "arm64", "v8")>>,
     <<Descriptor("linux", "arm64", "v8"), Descriptor("linux", "386", None),
       Descriptor("linux", "amd64", None)>>,
     <<Descriptor("linux", "arm", "v7"), Descriptor("linux", "arm", None)>>,
     <<Descriptor("linux", "arm", "v7")>>,
     <<NonDict, Descriptor("windows", "amd64", None), Descriptor("linux", None, None)>>}

\* The bodies of a 200 response of the tag endpoint, with the given 'images'
\* lists.
TagBodiesWith(lists) ==
    {TagData(k, "missing", <<>>) :
        k \in {"invalid", "falsy", "scalar", "str", "str_images", "list", "list_images", "dict"}}
    \cup {TagData("dict", "nonlist", <<>>)}
    \cup {TagData("dict", "list", l) : l \in lists}

TagResponsesWith(lists) ==
    {Resp("timeout", 0, NoneData), Resp("neterr", 0, NoneData),
     Resp("http", 404, NoneData), Resp("http", 500, NoneData)}
    \cup {Resp("http", 200, b) : b \in TagBodiesWith(lists)}

\* Responses of the tag endpoint in a run of main().
TagResponses == TagResponsesWith(SampleImages)

\* Responses of the tag endpoint with every 'images' list of at most
\* MaxImages descriptors.
AllTagResponses == TagResponsesWith(SeqUpTo(Descriptors, MaxImages))

\* --- GHCR token endpoint -------------------------------------------------
TokenBody(kind, token) == [kind |-> kind, token |-> token]

\* Every exception of the exchange is handled by the one 'except Exception':
\* a timeout stands for those requests.get raises, a body that is not an
\* object for those the decoding of a 200 response raises.
TokenResponses ==
    {Resp("timeout", 0, TokenBody("invalid", None)),
     Resp("http", 401, TokenBody("invalid", None)),
     Resp("http", 200, TokenBody("nondict", None)),
     Resp("http", 200, TokenBody("dict", None)),
     Resp("http", 200, TokenBody("dict", "")),
     Resp("http", 200, TokenBody("dict", "ghcr_scoped"))}

\* --- GHCR manifest endpoint ----------------------------------------------
IndexMediaTypes ==
    {"application/vnd.oci.image.index.v1+json",
     "application/vnd.docker.distribution.manifest.list.v2+json"}

SingleMediaTypes ==
    {"application/vnd.oci.image.manifest.v1+json",
     "application/vnd.docker.distribution.manifest.v2+json"}

\* Body of the manifest response.  manifests_kind is the shape of the
\* 'manifests' value:
\*   "list"    a list (or missing: the default [])
\*   "empty"   not a list, and iterating it yields nothing: {} or ""
\*   "raises"  not a list, and the loop over it raises: null, a number or
\*             a boolean (TypeError: not iterable), a non-empty string or
\*             object (AttributeError: its items are strings)
\* manifests: the entries of a list, each the entry's 'platform' (isdict =
\* FALSE: the entry, or its platform, is not a dict).  config_ok: 'config'
\* is a dict (or missing); digest: config.digest.
Manifest(kind, mediaType, manifests_kind, manifests, config_ok, digest) ==
    [kind |-> kind, mediaType |-> mediaType, manifests_kind |-> manifests_kind,
     manifests |-> manifests, config_ok |-> config_ok, digest |-> digest]

NoManifest == Manifest("invalid", None, "list", <<>>, TRUE, None)

ChildDescriptors ==
    {Descriptor("linux", "amd64", None), Descriptor("linux", "arm64", "v8"),
     Descriptor(None, "amd64", None), NonDict}

ManifestBodies ==
    {NoManifest, Manifest("nondict", None, "list", <<>>, TRUE, None)}
    \cup {Manifest("dict", mt, "list", l, TRUE, None) :
            mt \in IndexMediaTypes, l \in SeqUpTo(ChildDescriptors, MaxManifests)}
    \cup {Manifest("dict", mt, k, <<>>, TRUE, None) :
            mt \in IndexMediaTypes, k \in {"empty", "raises"}}
    \cup {Manifest("dict", mt, "list", <<>>, TRUE, d) :
            mt \in SingleMediaTypes, d \in {None, "sha256:c0"}}
    \cup {Manifest("dict", mt, "list", <<>>, FALSE, None) : mt \in SingleMediaTypes}
    \cup {Manifest("dict", mt, "list", <<>>, TRUE, "sha256:c0") :
            mt \in {None, "application/vnd.docker.distribution.manifest.v1+json"}}

ManifestResponses ==
    {Resp("timeout", 0, NoManifest), Resp("neterr", 0, NoManifest)}
    \cup {Resp("http", s, NoManifest) : s \in {404, 401, 403, 500}}
    \cup {Resp("http", 200, b) : b \in ManifestBodies}

\* --- GHCR config blob endpoint -------------------------------------------
\* Body of the config blob: kind as above, then the blob's os / architecture
\* / variant.
Blob(kind, os, arch, variant) ==
    [kind |-> kind, os |-> os, architecture |-> arch, variant |-> variant]

BlobResponses ==
    {Resp("timeout", 0, Blob("invalid", None, None, None)),
     Resp("neterr", 0, Blob("invalid", None, None, None)),
     Resp("http", 404, Blob("invalid", None, None, None)),
     Resp("http", 200, Blob("invalid", None, None, None)),
     Resp("http", 200, Blob("nondict", None, None, None)),
     Resp("http", 200, Blob("dict", "linux", "amd64", None)),
     Resp("http", 200, Blob("dict", "linux", "arm", "v7")),
     Resp("http", 200, Blob("dict", "linux", None, None)),
     Resp("http", 200, Blob("dict", None, "amd64", None))}

\* ------------------------------------------------------------- pure helpers
\* str.lstrip('v') on a tag held as a sequence of characters.
RECURSIVE lstrip_v(_)
lstrip_v(tag) ==
    IF tag # <<>> /\ Head(tag) = "v" THEN lstrip_v(Tail(tag)) ELSE tag

\* A tag test that only rejects the empty tag.
InvalidTagName_EmptyOnly(tag) == tag = <<>>

\* The test of get_latest_caddy_release: 'not tag_name or not
\* tag_name.startswith("v")' on a string tag_name.
InvalidTagName(tag) == tag = <<>> \/ Head(tag) # "v"

\* Python truthiness of tag data ('if official_image_data:').
DataPresent(data) == data.kind \notin {"None", "falsy"}

\* f"{os_name}/{arch}" and f"{os_name}/{arch}/{variant}".
OsArch(os, arch) == Str(os) \o "/" \o Str(arch)
OsArchVariant(os, arch, variant) == Str(os) \o "/" \o Str(arch) \o "/" \o Str(variant)

\* A platform_str that ignores the variant.
PlatformStr_NoVariant(img, required) ==
    IF OsArch(img.os, img.architecture) \in required
    THEN OsArch(img.os, img.architecture)
    ELSE ""

\* The platform_str computed for one image entry that passed the os / arch
\* test of the loop ("" when no branch assigns it).
PlatformStr(img, required) ==
    IF img.architecture = "arm" /\ img.variant = "v7"
    THEN OsArchVariant(img.os, img.architecture, img.variant)
    ELSE IF OsArch(img.os, img.architecture) \in required
         THEN OsArch(img.os, img.architecture)
         ELSE ""

\* The loop of get_platforms_from_tag_data over the 'images' list.
RECURSIVE PlatformsOfImages(_, _)
PlatformsOfImages(images, required) ==
    IF images = <<>> THEN {}
    ELSE LET img == Head(images)
             rest == PlatformsOfImages(Tail(images), required)
         IN  IF ~img.isdict THEN rest
             ELSE IF img.os # "linux" \/ ~Truthy(img.architecture) THEN rest
             ELSE IF PlatformStr(img, required) \in required
                  THEN {PlatformStr(img, required)} \cup rest
                  ELSE rest

\* get_platforms_from_tag_data raises TypeError: "'images' not in tag_data"
\* on a number, or tag_data['images'] on a string or a list.
PlatformsRaises(data) == data.kind \in {"scalar", "str_images", "list_images"}

\* get_platforms_from_tag_data, when it returns.
get_platforms_from_tag_data(data, required) ==
    IF ~DataPresent(data) THEN {}
    ELSE IF data.kind # "dict" \/ data.images_kind # "list" THEN {}
    ELSE PlatformsOfImages(data.images, required)

\* A completeness test satisfied by any found platform.
AllRequiredFound_Any(required, found) == found # {}

\* 'not required_platforms_missing' of main(): no required platform is
\* missing from the found ones.
AllRequiredFound(required, found) == required \ found = {}

\* check_docker_hub_tag: the decoded body on 200, None otherwise (404, any
\* other status, Timeout, RequestException, undecodable body).
check_docker_hub_tag(resp) ==
    IF resp.outcome # "http" THEN NoneData
    ELSE IF resp.status = 200
         THEN IF resp.body.kind = "invalid" THEN NoneData ELSE resp.body
         ELSE NoneData

\* The registry token check_ghcr_tag ends up with after the token exchange.
RegistryToken(resp, token) ==
    IF resp.outcome # "http" THEN token
    ELSE IF resp.status = 200
         THEN IF resp.body.kind = "dict" THEN resp.body.token ELSE token
         ELSE token

\* The Authorization header value f"Bearer {token}".
Bearer(token) == "Bearer " \o Str(token)

\* The image entry check_ghcr_tag builds from an os / architecture / variant
\* triple: the variant is kept only when truthy.
ImageEntry(p) ==
    Descriptor(p.os, p.architecture, IF Truthy(p.variant) THEN p.variant ELSE None)

\* The loop of check_ghcr_tag over the child manifests of an index: the
\* entries of the children that have both os and architecture.
RECURSIVE IndexImages(_)
IndexImages(manifests) ==
    IF manifests = <<>> THEN <<>>
    ELSE LET p == Head(manifests)
         IN  IF Truthy(p.os) /\ Truthy(p.architecture)
             THEN <<ImageEntry(p)>> \o IndexImages(Tail(manifests))
             ELSE IndexImages(Tail(manifests))

\* The index branch raises AttributeError / TypeError: the loop over
\* 'manifests' raises, or an entry (or its platform) is not a dict.  A
\* 'manifests' of {} or "" is iterated as an empty list.
IndexRaises(m) ==
    \/ m.manifests_kind = "raises"
    \/ \E i \in 1..Len(m.manifests) : ~m.manifests[i].isdict

\* A blob fetch that does not look at the config digest.
FetchesConfigBlob_NoDigestCheck(m) == m.mediaType \in SingleMediaTypes /\ m.config_ok

\* The single-arch branch fetches the config blob: the manifest has a config
\* digest.
FetchesConfigBlob(m) == m.mediaType \in SingleMediaTypes /\ m.config_ok /\ Truthy(m.digest)

\* Result of the index branch: {'images': images} if images else None.
IndexResult(m) ==
    IF IndexImages(m.manifests) = <<>> THEN NoneData
    ELSE TagData("dict", "list", IndexImages(m.manifests))

\* Result of the config blob step of the single-arch branch.
BlobResult(resp) ==
    IF resp.outcome # "http" THEN NoneData
    ELSE IF resp.status # 200 \/ resp.body.kind = "invalid" THEN NoneData
    ELSE IF Truthy(resp.body.os) /\ Truthy(resp.body.architecture)
         THEN TagData("dict", "list", <<ImageEntry(resp.body)>>)
         ELSE NoneData

\* '\n' in output_value.
HasNewline(value) == "\n" \in Range(value)

\* The codec encodes every character of the text; otherwise writing the
\* text raises UnicodeEncodeError.
Encodes(codec, text) ==
    \A ch \in Range(text) :
        IF codec = "lenient" THEN TRUE
        ELSE IF codec = "utf-8" THEN ch # Surrogate
        ELSE ch \notin {Surrogate, NonAscii}

\* The strings 'true' and 'false', as character sequences.
StrTrue == <<"t", "r", "u", "e">>
StrFalse == <<"f", "a", "l", "s", "e">>

\* A decision that reports the completeness instead of its negation.
NeedsBuildOutput_Inverted(complete) == IF complete THEN StrTrue ELSE StrFalse

\* 'true' if needs_build else 'false', with needs_build = not
\* custom_image_complete.
NeedsBuildOutput(complete) == IF ~complete THEN StrTrue ELSE StrFalse

\* The value main() passes for LATEST_VERSION.
LatestVersionOutput(latest, docker_tag) == latest

\* Exit code of the process for each way the run ends: sys.exit(0) or the
\* end of main(), sys.exit(1), an uncaught exception.
ExitCode(e) == IF e = "exit0" THEN 0 ELSE 1

\* -------------------------------------------------------------------- state
VARIABLES
    REQUIRED_PLATFORMS,       \* the module-level required platform set
    CUSTOM_REGISTRY,          \* the module-level registry selector
    github_token,             \* os.environ.get("GITHUB_TOKEN")
    GITHUB_OUTPUT,            \* whether the environment names a sink (SinkConfigs)
    pc,                       \* position of main()
    exit,                     \* "running", "exit0", "exit1", "crash"
    latest_gh_tag,            \* main(): release tag, as returned
    official_docker_tag,      \* main(): latest_gh_tag.lstrip('v')
    official_image_data,      \* main(): result of the official tag check
    found_official_platforms, \* main(): platforms extracted from it
    official_image_ready,     \* main()
    registry_token,           \* check_ghcr_tag(): token used for the registry
    manifest,                 \* check_ghcr_tag(): decoded manifest
    custom_tag_data,          \* main(): result of the custom tag check
    found_custom_platforms,   \* main(): platforms extracted from it
    custom_image_complete,    \* main()
    calls,                    \* requests made so far, with their responses
    output,                   \* entries appended to the output sink
    appends                   \* how each open-and-append attempted ended

config == <<REQUIRED_PLATFORMS, CUSTOM_REGISTRY, github_token, GITHUB_OUTPUT>>
release == <<latest_gh_tag, official_docker_tag>>
official == <<official_image_data, found_official_platforms, official_image_ready>>
ghcr == <<registry_token, manifest>>
custom == <<custom_tag_data, found_custom_platforms, custom_image_complete>>
sink == <<output, appends>>

vars == <<config, pc, exit, release, official, ghcr, custom, calls, sink>>

\* One recorded request: the endpoint, the Authorization header value sent
\* (None when there is none) and the outcome.
Call(endpoint, auth, resp) == [endpoint |-> endpoint, auth |-> auth, response |-> resp]

Endpoints(cs) == [i \in 1..Len(cs) |-> cs[i].endpoint]

\* One entry of the output sink: a 'name=value' line, or a delimiter block
\* for a value that contains a newline.
Entry(name, value) ==
    [name |-> name, value |-> value, form |-> IF HasNewline(value) THEN "block" ELSE "line"]

\* What a failed append leaves in the file: a part of the entry for name.
Fragment(name) == [name |-> name, value |-> <<>>, form |-> "fragment"]

\* How one open-and-append ends, given what the file system does with it:
\* "ok", "fragment" or "fails" as in AppendOutcomes (the last two raise
\* OSError), or "unencodable": print() raises UnicodeEncodeError on the
\* value, which 'except OSError' does not catch.  open() comes first, so a
\* failing open() raises OSError whatever the value.  An unencodable value
\* on one line reaches the file in no part; an unencodable value in a
\* delimiter block is raised on after the block's first line was buffered,
\* and that line is flushed when the file is closed: when the flush is cut
\* short, its OSError replaces the UnicodeEncodeError.
AppendResult(outcome, value) ==
    IF Encodes("utf-8", value) \/ outcome = "fails" THEN outcome
    ELSE IF HasNewline(value) /\ outcome = "fragment" THEN "fragment"
    ELSE "unencodable"

\* What the append leaves in the file.
Appended(outcome, name, value) ==
    IF AppendResult(outcome, value) = "ok" THEN <<Entry(name, value)>>
    ELSE IF AppendResult(outcome, value) = "fragment" THEN <<Fragment(name)>>
    ELSE IF AppendResult(outcome, value) = "unencodable" /\ HasNewline(value)
         THEN <<Fragment(name)>>
    ELSE <<>>

\* set_action_output on the triple (entries written, exit state, append
\* results): nothing when GITHUB_OUTPUT is not set; otherwise one
\* open-and-append on which the file system does the given outcome, then
\* sys.exit(1) when OSError was raised and an uncaught exception when
\* UnicodeEncodeError was.
set_action_output(st, env, outcome, name, value) ==
    IF st.exit # "running" THEN st
    ELSE IF env = "unset" THEN st
    ELSE [out |-> st.out \o Appended(outcome, name, value),
          exit |-> IF AppendResult(outcome, value) = "ok" THEN st.exit
                   ELSE IF AppendResult(outcome, value) = "unencodable" THEN "crash"
                   ELSE "exit1",
          appends |-> Append(st.appends, AppendResult(outcome, value))]

\* The two set_action_output calls of main(), in order, each with the
\* outcome of its own open-and-append.
EmitOutputs(needs_build, first, second) ==
    set_action_output(
        set_action_output([out |-> output, exit |-> exit, appends |-> appends],
                          GITHUB_OUTPUT, first, "NEEDS_BUILD", needs_build),
        GITHUB_OUTPUT, second, "LATEST_VERSION",
        LatestVersionOutput(latest_gh_tag, official_docker_tag))

Init ==
    /\ REQUIRED_PLATFORMS \in RequiredConfigs
    /\ CUSTOM_REGISTRY \in RegistryConfigs
    /\ github_token \in TokenConfigs
    /\ GITHUB_OUTPUT \in SinkConfigs
    /\ pc = "start"
    /\ exit = "running"
    /\ latest_gh_tag = <<>>
    /\ official_docker_tag = <<>>
    /\ official_image_data = NoneData
    /\ found_official_platforms = {}
    /\ official_image_ready = FALSE
    /\ registry_token = None
    /\ manifest = NoManifest
    /\ custom_tag_data = NoneData
    /\ found_custom_platforms = {}
    /\ custom_image_complete = FALSE
    /\ calls = <<>>
    /\ output = <<>>
    /\ appends = <<>>

\* The process ends: pc = "done" with the given exit state.
Terminate(e) == pc' = "done" /\ exit' = e

\* ------------------------------------------------------------------ actions
\* main(), configuration checks.
ConfigValid == REQUIRED_PLATFORMS # {} /\ CUSTOM_REGISTRY \in {"dockerhub", "ghcr"}

ValidateConfig ==
    /\ pc = "start"
    /\ IF ConfigValid THEN pc' = "release" /\ exit' = exit ELSE Terminate("exit1")
    /\ UNCHANGED <<config, release, official, ghcr, custom, calls, sink>>

\* How get_latest_caddy_release ends on a response, with the given stdout:
\* "exit1" (sys.exit(1)), "crash" (AttributeError: .get on a non-object
\* body, or .startswith on a truthy tag_name that is not a string;
\* UnicodeEncodeError: log_info of a valid tag that stdout cannot encode), or
\* "running" (the tag is returned).  An invalid tag is logged to stderr,
\* whose error handler is backslashreplace.  raise_for_status raises HTTPError for the statuses 400..599
\* only; the body of any other status is decoded.  'not tag_name' sends
\* every falsy tag_name, string or not, to sys.exit(1).
ReleaseOutcome(resp, stdout) ==
    IF resp.outcome # "http" THEN "exit1"
    ELSE IF resp.status >= 400 /\ resp.status < 600 THEN "exit1"
    ELSE IF resp.body.kind = "invalid" THEN "exit1"
    ELSE IF resp.body.kind = "nondict" THEN "crash"
    ELSE IF resp.body.tag_kind \in {"missing", "falsy"} THEN "exit1"
    ELSE IF resp.body.tag_kind = "nonstring" THEN "crash"
    ELSE IF InvalidTagName(resp.body.tag) THEN "exit1"
    ELSE IF ~Encodes(stdout, resp.body.tag) THEN "crash"
    ELSE "running"

\* main(): get_latest_caddy_release and the two tag assignments, on one
\* response.  The log_info calls that follow in main() print the same
\* characters to the same stdout, so they succeed once this one has.
ReleaseTransition(resp, stdout) ==
    /\ calls' = Append(calls, Call("release",
                    IF Truthy(github_token) THEN Bearer(github_token) ELSE None, resp))
    /\ IF ReleaseOutcome(resp, stdout) = "running"
       THEN /\ latest_gh_tag' = resp.body.tag
            /\ official_docker_tag' = lstrip_v(resp.body.tag)
            /\ pc' = "official"
            /\ exit' = exit
       ELSE /\ Terminate(ReleaseOutcome(resp, stdout))
            /\ UNCHANGED release
    /\ UNCHANGED <<config, official, ghcr, custom, sink>>

\* A release lookup that asks again after a timeout.
GetLatestCaddyRelease_Retry ==
    /\ pc = "release"
    /\ \E resp \in ReleaseResponses, stdout \in StdoutCodecs :
        IF resp.outcome = "timeout"
        THEN /\ calls' = Append(calls, Call("release",
                        IF Truthy(github_token) THEN Bearer(github_token) ELSE None, resp))
             /\ Len(calls) < 2
             /\ UNCHANGED <<config, pc, exit, release, official, ghcr, custom, sink>>
        ELSE ReleaseTransition(resp, stdout)

GetLatestCaddyRelease ==
    /\ pc = "release"
    /\ \E resp \in ReleaseResponses, stdout \in StdoutCodecs : ReleaseTransition(resp, stdout)

\* main(), step 1: the official tag check and its platform verification, on
\* a response drawn from the given set.
CheckOfficial(responses) ==
    /\ pc = "official"
    /\ \E resp \in responses :
        LET data == check_docker_hub_tag(resp)
            found == get_platforms_from_tag_data(data, REQUIRED_PLATFORMS)
        IN  /\ calls' = Append(calls, Call("official_tag", None, resp))
            /\ official_image_data' = data
            /\ IF DataPresent(data) /\ PlatformsRaises(data)
               THEN /\ Terminate("crash")
                    /\ UNCHANGED <<found_official_platforms, official_image_ready>>
               ELSE /\ found_official_platforms' = IF DataPresent(data) THEN found ELSE {}
                    /\ official_image_ready' =
                         (DataPresent(data) /\ AllRequiredFound(REQUIRED_PLATFORMS, found))
                    /\ pc' = IF official_image_ready' THEN "custom" ELSE "notready"
                    /\ exit' = exit
    /\ UNCHANGED <<config, release, ghcr, custom, sink>>

CheckOfficialImage == CheckOfficial(TagResponses)

\* main(): 'if not official_image_ready' block.
ExitNotReady ==
    /\ pc = "notready"
    /\ \E first \in AppendOutcomes, second \in AppendOutcomes :
        LET st == EmitOutputs(StrFalse, first, second)
        IN  /\ output' = st.out
            /\ appends' = st.appends
            /\ Terminate(IF st.exit = "running" THEN "exit0" ELSE st.exit)
    /\ UNCHANGED <<config, release, official, ghcr, custom, calls>>

\* main(), step 2 with CUSTOM_REGISTRY == 'dockerhub'.
CheckCustomDockerHub ==
    /\ pc = "custom"
    /\ CUSTOM_REGISTRY = "dockerhub"
    /\ \E resp \in TagResponses :
        /\ calls' = Append(calls, Call("custom_tag", None, resp))
        /\ custom_tag_data' = check_docker_hub_tag(resp)
    /\ pc' = "verify"
    /\ UNCHANGED <<config, exit, release, official, ghcr, found_custom_platforms,
                   custom_image_complete, sink>>

\* check_ghcr_tag without a token: returns None before any request.
CheckGhcrNoToken ==
    /\ pc = "custom"
    /\ CUSTOM_REGISTRY # "dockerhub"
    /\ ~Truthy(github_token)
    /\ custom_tag_data' = NoneData
    /\ pc' = "verify"
    /\ UNCHANGED <<config, exit, release, official, ghcr, found_custom_platforms,
                   custom_image_complete, calls, sink>>

\* check_ghcr_tag: the token exchange.
GhcrTokenExchange ==
    /\ pc = "custom"
    /\ CUSTOM_REGISTRY # "dockerhub"
    /\ Truthy(github_token)
    /\ \E resp \in TokenResponses :
        /\ calls' = Append(calls, Call("ghcr_token", Bearer(github_token), resp))
        /\ registry_token' = RegistryToken(resp, github_token)
    /\ pc' = "manifest"
    /\ UNCHANGED <<config, exit, release, official, manifest, custom, sink>>

\* check_ghcr_tag: the manifest request and the handling of its response, up
\* to the config blob request.
GhcrManifest ==
    /\ pc = "manifest"
    /\ \E resp \in ManifestResponses :
        LET m == resp.body
            ok == resp.outcome = "http" /\ resp.status = 200 /\ m.kind # "invalid"
        IN  /\ calls' = Append(calls, Call("ghcr_manifest", Bearer(registry_token), resp))
            /\ manifest' = IF ok THEN m ELSE manifest
            /\ IF ~ok
               THEN custom_tag_data' = NoneData /\ pc' = "verify" /\ exit' = exit
               ELSE IF m.kind = "nondict"
               THEN Terminate("crash") /\ UNCHANGED custom_tag_data
               ELSE IF m.mediaType \in IndexMediaTypes
               THEN IF IndexRaises(m)
                    THEN Terminate("crash") /\ UNCHANGED custom_tag_data
                    ELSE custom_tag_data' = IndexResult(m) /\ pc' = "verify" /\ exit' = exit
               ELSE IF m.mediaType \in SingleMediaTypes
               THEN IF ~m.config_ok
                    THEN Terminate("crash") /\ UNCHANGED custom_tag_data
                    ELSE IF FetchesConfigBlob(m)
                    THEN pc' = "blob" /\ exit' = exit /\ UNCHANGED custom_tag_data
                    ELSE custom_tag_data' = NoneData /\ pc' = "verify" /\ exit' = exit
               ELSE custom_tag_data' = NoneData /\ pc' = "verify" /\ exit' = exit
    /\ UNCHANGED <<config, release, official, registry_token, found_custom_platforms,
                   custom_image_complete, sink>>

\* check_ghcr_tag: the config blob request of the single-arch branch.
GhcrConfigBlob ==
    /\ pc = "blob"
    /\ \E resp \in BlobResponses :
        /\ calls' = Append(calls, Call("ghcr_blob", Bearer(registry_token), resp))
        /\ IF resp.outcome = "http" /\ resp.status = 200 /\ resp.body.kind = "nondict"
           THEN Terminate("crash") /\ UNCHANGED custom_tag_data
           ELSE custom_tag_data' = BlobResult(resp) /\ pc' = "verify" /\ exit' = exit
    /\ UNCHANGED <<config, release, official, ghcr, found_custom_platforms,
                   custom_image_complete, sink>>

\* main(), step 2: platform verification of the custom tag data.
VerifyCustomImage ==
    /\ pc = "verify"
    /\ LET found == get_platforms_from_tag_data(custom_tag_data, REQUIRED_PLATFORMS)
       IN  IF DataPresent(custom_tag_data) /\ PlatformsRaises(custom_tag_data)
           THEN /\ Terminate("crash")
                /\ UNCHANGED <<found_custom_platforms, custom_image_complete>>
           ELSE /\ found_custom_platforms' = IF DataPresent(custom_tag_data) THEN found ELSE {}
                /\ custom_image_complete' =
                     (DataPresent(custom_tag_data) /\ AllRequiredFound(REQUIRED_PLATFORMS, found))
                /\ pc' = "emit"
                /\ exit' = exit
    /\ UNCHANGED <<config, release, official, ghcr, custom_tag_data, calls, sink>>

\* main(), step 3: the decision and the two outputs, then the end of main().
EmitDecision ==
    /\ pc = "emit"
    /\ \E first \in AppendOutcomes, second \in AppendOutcomes :
        LET st == EmitOutputs(NeedsBuildOutput(custom_image_complete), first, second)
        IN  /\ output' = st.out
            /\ appends' = st.appends
            /\ Terminate(IF st.exit = "running" THEN "exit0" ELSE st.exit)
    /\ UNCHANGED <<config, release, official, ghcr, custom, calls>>

Next ==
    \/ ValidateConfig
    \/ GetLatestCaddyRelease
    \/ CheckOfficialImage
    \/ ExitNotReady
    \/ CheckCustomDockerHub
    \/ CheckGhcrNoToken
    \/ GhcrTokenExchange
    \/ GhcrManifest
    \/ GhcrConfigBlob
    \/ VerifyCustomImage
    \/ EmitDecision

Spec == Init /\ [][Next]_vars

\* ---------------------------------------------- platform extraction alone
\* The run after a successful release lookup, about to check the official
\* image.
InitExtract ==
    /\ REQUIRED_PLATFORMS \in RequiredConfigs \ {{}}
    /\ CUSTOM_REGISTRY \in {"dockerhub", "ghcr"}
    /\ github_token \in TokenConfigs
    /\ GITHUB_OUTPUT \in SinkConfigs
    /\ pc = "official"
    /\ exit = "running"
    /\ latest_gh_tag = <<"v", "2">>
    /\ official_docker_tag = lstrip_v(<<"v", "2">>)
    /\ official_image_data = NoneData
    /\ found_official_platforms = {}
    /\ official_image_ready = FALSE
    /\ registry_token = None
    /\ manifest = NoManifest
    /\ custom_tag_data = NoneData
    /\ found_custom_platforms = {}
    /\ custom_image_complete = FALSE
    /\ calls = <<Call("release",
                      IF Truthy(github_token) THEN Bearer(github_token) ELSE None,
                      Resp("http", 200, ReleaseBody("dict", "string", <<"v", "2">>)))>>
    /\ output = <<>>
    /\ appends = <<>>

\* The official check on any tag descriptor of at most MaxImages images.
ExtractPlatforms == CheckOfficial(AllTagResponses)

PlatformSpec == InitExtract /\ [][ExtractPlatforms]_vars

\* ------------------------------------------------------ vocabulary of claims
IsPrefix(s, t) == Len(s) <= Len(t) /\ \A i \in 1..Len(s) : s[i] = t[i]

\* The calls made to the given endpoint.
CallsTo(endpoint) == {i \in 1..Len(calls) : calls[i].endpoint = endpoint}

CustomEndpoints == {"custom_tag", "ghcr_token", "ghcr_manifest", "ghcr_blob"}

NoCustomCall == \A i \in 1..Len(calls) : calls[i].endpoint \notin CustomEndpoints

\* The official check has run and returned without raising.
OfficialChecked ==
    /\ CallsTo("official_tag") # {}
    /\ ~(DataPresent(official_image_data) /\ PlatformsRaises(official_image_data))

\* The official check returned absent.
UpstreamAbsent == OfficialChecked /\ ~DataPresent(official_image_data)

\* The official image is present and its extracted platforms miss a required
\* one.
UpstreamIncomplete ==
    /\ OfficialChecked
    /\ DataPresent(official_image_data)
    /\ ~(REQUIRED_PLATFORMS \subseteq found_official_platforms)

UpstreamNotReady == UpstreamAbsent \/ UpstreamIncomplete

\* The custom verification has run and returned without raising: the run
\* is at step 3, or it is over and did not crash before the outputs.
CustomVerified ==
    /\ official_image_ready
    /\ \/ pc = "emit"
       \/ pc = "done" /\ (exit # "crash" \/ appends # <<>>)

\* The platform a descriptor stands for, as the specification words it.
MapsTo(d) ==
    IF d.architecture = "arm" /\ d.variant = "v7" THEN "linux/arm/v7"
    ELSE "linux/" \o Str(d.architecture)

\* The required platforms some linux descriptor of the list maps to.
ExpectedPlatforms(images, required) ==
    {p \in required :
        \E i \in 1..Len(images) :
            images[i].isdict /\ images[i].os = "linux" /\ MapsTo(images[i]) = p}

\* The linux platforms an image publishes.
Published(data) ==
    IF data.kind = "dict" /\ data.images_kind = "list"
    THEN {MapsTo(d) : d \in {e \in Range(data.images) :
                                e.isdict /\ e.os = "linux" /\ Truthy(e.architecture)}}
    ELSE {}

\* GITHUB_OUTPUT names a sink and no append to it has raised OSError.
SinkWritable ==
    /\ GITHUB_OUTPUT = "set"
    /\ \A i \in 1..Len(appends) : appends[i] \notin {"fragment", "fails"}

\* The entries that reached the sink whole.
WholeEntries == SelectSeq(output, LAMBDA e : e.form # "fragment")

\* ------------------------------------------------------------------- claims
\* C1 as stated: whenever the official check does not end in
\* PRESENT_COMPLETE, the custom registry is never queried and the finished
\* run has written NEEDS_BUILD=false (to the sink, when GITHUB_OUTPUT names
\* one) and exited with code 0.
C1_AsStated ==
    UpstreamNotReady =>
        /\ NoCustomCall
        /\ pc = "done" =>
            /\ GITHUB_OUTPUT # "unset" =>
                  \E i \in 1..Len(output) : output[i] = Entry("NEEDS_BUILD", StrFalse)
            /\ ExitCode(exit) = 0

\* C2: when the official image is ready, the NEEDS_BUILD value written is
\* 'false' exactly when the custom tag lookup returned present and every
\* required platform is among the platforms extracted from it, and 'true'
\* otherwise, for both registries; it is the first entry written whenever
\* the first append succeeds.
C2_NeedsBuild ==
    /\ (official_image_ready /\ WholeEntries # <<>>) =>
          /\ CUSTOM_REGISTRY \in {"dockerhub", "ghcr"}
          /\ WholeEntries[1].name = "NEEDS_BUILD"
          /\ WholeEntries[1].value =
                IF DataPresent(custom_tag_data)
                   /\ REQUIRED_PLATFORMS \subseteq found_custom_platforms
                THEN StrFalse ELSE StrTrue
    /\ (official_image_ready /\ appends # <<>> /\ appends[1] = "ok") =>
          WholeEntries # <<>> /\ WholeEntries[1] = output[1]

C2_Witness ==
    /\ pc = "done"
    /\ official_image_ready
    /\ CUSTOM_REGISTRY = "ghcr"
    /\ DataPresent(custom_tag_data)
    /\ found_custom_platforms # {}
    /\ ~(REQUIRED_PLATFORMS \subseteq found_custom_platforms)
    /\ output # <<>>
    /\ output[1].value = StrTrue

\* C3: for every list of platform descriptors, the extracted set is exactly
\* the set of required platforms some linux descriptor maps to, where an
\* arm/v7 descriptor maps only to linux/arm/v7 and any other only to
\* linux/<arch>: arm/v7 never yields linux/arm, a variant-less arm never
\* yields linux/arm/v7, and nothing outside the required set is returned.
C3_Extraction ==
    (OfficialChecked /\ official_image_data.kind = "dict"
        /\ official_image_data.images_kind = "list") =>
        LET images == official_image_data.images
            arms(v7) == {i \in 1..Len(images) :
                            /\ images[i].isdict
                            /\ images[i].os = "linux"
                            /\ images[i].architecture = "arm"
                            /\ (images[i].variant = "v7") = v7}
        IN  /\ found_official_platforms = ExpectedPlatforms(images, REQUIRED_PLATFORMS)
            /\ found_official_platforms \subseteq REQUIRED_PLATFORMS
            /\ "linux/arm" \in found_official_platforms => arms(FALSE) # {}
            /\ "linux/arm/v7" \in found_official_platforms => arms(TRUE) # {}

C3_Witness ==
    /\ OfficialChecked
    /\ Len(official_image_data.images) = 2
    /\ official_image_data.images[1] = NonDict
    /\ official_image_data.images[2] = Descriptor("linux", "arm", "v7")
    /\ "linux/arm" \in REQUIRED_PLATFORMS
    /\ found_official_platforms = {"linux/arm/v7"}

\* C4: a present image is complete exactly when every required platform is
\* among its published linux platforms, for the official image and for the
\* custom one: an equal set or a strict superset is complete, a set that
\* lacks a required platform is not.
C4_Completeness ==
    /\ (OfficialChecked /\ DataPresent(official_image_data)) =>
          (official_image_ready =
              (REQUIRED_PLATFORMS \subseteq Published(official_image_data)))
    /\ (CustomVerified /\ DataPresent(custom_tag_data)) =>
          (custom_image_complete =
              (REQUIRED_PLATFORMS \subseteq Published(custom_tag_data)))

C4_Witness ==
    /\ CustomVerified
    /\ Published(official_image_data) \ REQUIRED_PLATFORMS # {}
    /\ official_image_ready
    /\ DataPresent(custom_tag_data)
    /\ Cardinality(REQUIRED_PLATFORMS \ Published(custom_tag_data)) = 1
    /\ ~custom_image_complete

\* The release lookup has returned a tag.
ReleaseSucceeded == latest_gh_tag # <<>>

\* A response that fails to confirm a tag: an exception, a status other than
\* 200, or a body that is not JSON or not of the expected shape.
FailedTagResponse(r) ==
    \/ r.outcome # "http"
    \/ r.status # 200
    \/ r.body.kind \in {"invalid", "nondict", "scalar", "str", "str_images",
                        "list", "list_images"}

\* The custom check hit such a failure on its tag, manifest or blob request.
CustomCheckFailed ==
    \E i \in 1..Len(calls) :
        /\ calls[i].endpoint \in {"custom_tag", "ghcr_manifest", "ghcr_blob"}
        /\ FailedTagResponse(calls[i].response)

\* C5 as stated: after a successful release lookup (of a tag the sink can
\* carry) no registry failure crashes the run; the finished run has written NEEDS_BUILD and
\* LATEST_VERSION to a writable sink, and NEEDS_BUILD is 'true' when the
\* custom check failed.
C5_AsStated ==
    (ReleaseSucceeded /\ Encodes("utf-8", latest_gh_tag)) =>
        /\ exit # "crash"
        /\ (pc = "done" /\ SinkWritable) =>
              /\ Len(output) = 2
              /\ output[1].name = "NEEDS_BUILD"
              /\ output[2].name = "LATEST_VERSION"
              /\ CustomCheckFailed => output[1].value = StrTrue

\* A fatal configuration: no required platform, or an unknown registry.
FatalConfig == REQUIRED_PLATFORMS = {} \/ CUSTOM_REGISTRY \notin {"dockerhub", "ghcr"}

\* A fatal release response: timeout, network error, HTTP error status (a
\* client or server error, 400..599), undecodable body, or a tag_name that
\* is missing, empty or does not start with 'v'.
FatalRelease(r) ==
    \/ r.outcome # "http"
    \/ r.status >= 400 /\ r.status < 600
    \/ r.body.kind = "invalid"
    \/ r.body.kind = "dict" /\ r.body.tag_kind = "missing"
    \/ r.body.kind = "dict" /\ r.body.tag_kind = "string"
         /\ (r.body.tag = <<>> \/ Head(r.body.tag) # "v")

\* C6: every fatal condition ends the process with a non-zero exit code
\* before anything is written to the sink and before any registry endpoint
\* is called; a configuration error also ends it before the release lookup.
C6_FatalAborts ==
    /\ (FatalConfig /\ pc # "start") =>
          /\ pc = "done"
          /\ ExitCode(exit) # 0
          /\ calls = <<>>
          /\ output = <<>>
    /\ (calls # <<>> /\ FatalRelease(calls[1].response)) =>
          /\ pc = "done"
          /\ ExitCode(exit) # 0
          /\ Endpoints(calls) = <<"release">>
          /\ output = <<>>

C6_Witness ==
    /\ pc = "done"
    /\ calls # <<>>
    /\ calls[1].response.outcome = "http"
    /\ calls[1].response.status = 200
    /\ calls[1].response.body.tag_kind = "string"
    /\ calls[1].response.body.tag = <<"2">>
    /\ exit = "exit1"

\* The run reached a decision: the early exit because the official image is
\* not ready, or the final decision after the custom verification.
ReachedDecision == pc = "done" /\ ReleaseSucceeded /\ (UpstreamNotReady \/ CustomVerified)

\* C7 as stated: a run that reaches a decision with a writable sink has
\* appended exactly two entries, NEEDS_BUILD ('true' or 'false') then
\* LATEST_VERSION (the release tag as the lookup returned it, leading 'v'
\* included, not the stripped registry tag), and exits with code 0; with
\* GITHUB_OUTPUT not set it writes nothing and still exits with code 0.
C7_AsStated ==
    /\ (ReachedDecision /\ SinkWritable) =>
          /\ Len(output) = 2
          /\ output[1].name = "NEEDS_BUILD"
          /\ output[1].value \in {StrTrue, StrFalse}
          /\ output[2].name = "LATEST_VERSION"
          /\ output[2].value = calls[1].response.body.tag
          /\ Head(output[2].value) = "v"
          /\ output[2].value # official_docker_tag
          /\ ExitCode(exit) = 0
    /\ (ReachedDecision /\ GITHUB_OUTPUT = "unset") =>
          /\ output = <<>>
          /\ ExitCode(exit) = 0
    /\ Len(output) <= 2

\* The token exchange did not yield a usable scoped token: an exception, a
\* status other than 200, or a 200 response without a token.
ExchangeFailed(r) ==
    \/ r.outcome # "http"
    \/ r.status # 200
    \/ r.body.kind # "dict"
    \/ ~Truthy(r.body.token)

\* C8 as stated: with a non-empty primary token, whenever the token exchange
\* fails to yield a usable scoped token the manifest request is still made
\* and carries the primary credential as its bearer token.
C8_AsStated ==
    \A i \in CallsTo("ghcr_token") :
        ExchangeFailed(calls[i].response) =>
            /\ Len(calls) = i => pc = "manifest"
            /\ Len(calls) > i =>
                  /\ calls[i + 1].endpoint = "ghcr_manifest"
                  /\ calls[i + 1].auth = Bearer(github_token)

\* The orders in which a run may call its endpoints.
HubOrder == <<"release", "official_tag", "custom_tag">>
GhcrOrder == <<"release", "official_tag", "ghcr_token", "ghcr_manifest", "ghcr_blob">>

\* C9: the calls of a run are a prefix of release, official tag check, then
\* the custom check of one registry only; the custom check is made only
\* when the official image is ready, no endpoint is requested twice, and
\* nothing is requested once output has been written.
C9_CallOrder ==
    /\ IsPrefix(Endpoints(calls), HubOrder) \/ IsPrefix(Endpoints(calls), GhcrOrder)
    /\ \A e \in Range(Endpoints(calls)) : Cardinality(CallsTo(e)) = 1
    /\ ~NoCustomCall => official_image_ready
    /\ output # <<>> => pc = "done"

C9_Witness ==
    /\ pc = "done"
    /\ Endpoints(calls) = GhcrOrder
    /\ Len(output) = 2

\* The manifest request returned 200 with a JSON object.
ManifestDecoded ==
    \E i \in CallsTo("ghcr_manifest") :
        /\ calls[i].response.outcome = "http"
        /\ calls[i].response.status = 200
        /\ calls[i].response.body.kind = "dict"
        /\ calls[i].response.body = manifest

\* check_ghcr_tag was called (the official image is ready and the registry
\* is not Docker Hub) and has returned: the run is at the custom
\* verification or at step 3, or it is over and did not crash before the
\* outputs (a crash inside check_ghcr_tag comes before any append).
GhcrReturned ==
    /\ CUSTOM_REGISTRY # "dockerhub"
    /\ official_image_ready
    /\ \/ pc \in {"verify", "emit"}
       \/ pc = "done" /\ (exit # "crash" \/ appends # <<>>)

\* The platform descriptors of the child manifests that carry both an os and
\* an architecture.
ChildPlatforms(m) ==
    SelectSeq(m.manifests, LAMBDA p : Truthy(p.os) /\ Truthy(p.architecture))

SamePlatform(entry, p) ==
    /\ entry.os = p.os
    /\ entry.architecture = p.architecture
    /\ entry.variant = (IF Truthy(p.variant) THEN p.variant ELSE None)

\* C10: after a 200 manifest response, an index yields the platform
\* descriptors of its child manifests without a further request; a
\* single-platform manifest makes exactly one config blob request when it
\* has a config digest and yields the platform read from the blob, absent
\* when the digest is missing, the blob response is not 200 or os /
\* architecture is missing; any other media type yields absent without a
\* blob request.  The blob is requested only for a single-platform manifest
\* with a config digest.
C10_ManifestShapes ==
    /\ CallsTo("ghcr_blob") # {} =>
          /\ ManifestDecoded
          /\ manifest.mediaType \in SingleMediaTypes
          /\ Truthy(manifest.digest)
          /\ Cardinality(CallsTo("ghcr_blob")) = 1
    /\ (ManifestDecoded /\ GhcrReturned /\ manifest.mediaType \in IndexMediaTypes) =>
          /\ CallsTo("ghcr_blob") = {}
          /\ Len(custom_tag_data.images) = Len(ChildPlatforms(manifest))
          /\ \A i \in 1..Len(custom_tag_data.images) :
                SamePlatform(custom_tag_data.images[i], ChildPlatforms(manifest)[i])
          /\ DataPresent(custom_tag_data) = (ChildPlatforms(manifest) # <<>>)
    /\ (ManifestDecoded /\ GhcrReturned /\ manifest.mediaType \in SingleMediaTypes) =>
          IF Truthy(manifest.digest)
          THEN /\ Cardinality(CallsTo("ghcr_blob")) = 1
               /\ LET r == calls[Len(calls)].response
                  IN  IF r.outcome = "http" /\ r.status = 200 /\ r.body.kind = "dict"
                         /\ Truthy(r.body.os) /\ Truthy(r.body.architecture)
                      THEN /\ DataPresent(custom_tag_data)
                           /\ Len(custom_tag_data.images) = 1
                           /\ SamePlatform(custom_tag_data.images[1], r.body)
                      ELSE ~DataPresent(custom_tag_data)
          ELSE CallsTo("ghcr_blob") = {} /\ ~DataPresent(custom_tag_data)
    /\ (ManifestDecoded /\ GhcrReturned
          /\ manifest.mediaType \notin IndexMediaTypes \cup SingleMediaTypes) =>
          /\ CallsTo("ghcr_blob") = {}
          /\ ~DataPresent(custom_tag_data)

C10_Witness ==
    /\ ManifestDecoded
    /\ GhcrReturned
    /\ manifest.mediaType \in SingleMediaTypes
    /\ Cardinality(CallsTo("ghcr_blob")) = 1
    /\ custom_tag_data.images = <<Descriptor("linux", "arm", "v7")>>

====
